---- MODULE Spec2Model ----
(***************************************************************************)
(* The staging / commit / export pipeline of the NeuroFinder update tool.  *)
(*                                                                         *)
(* Two programs implement it: src/main/frontend.py (the validating         *)
(* pipeline, db_handler.validate_file_type gates the commit) and           *)
(* src/main/backend.py (the non-validating pipeline).  Both keep the       *)
(* module-level lists loading_files (the Staging Registry) and             *)
(* loaded_files (the Committed Registry).  The lists hold references to    *)
(* the same dict objects {"path": str, "data_type": StringVar}; the model  *)
(* keeps the objects in a heap indexed by object identity, so that         *)
(* aliasing between the two lists is visible.                              *)
(*                                                                         *)
(* Every handler runs to completion on the Tk event loop: one action per   *)
(* handler, taken when the loop waits for an event.  The action leaves in  *)
(* op, event, messages, calls and exc what the handler was called with and *)
(* what it did; the loop then takes                                        *)
(* control again (ReturnToMainloop).  An exception that leaves a handler   *)
(* is reported by Tk (report_callback_exception) and the event loop goes   *)
(* on with whatever state the handler left behind.                         *)
(***************************************************************************)
EXTENDS Integers, Sequences, FiniteSets, TLC

(* ------------------------------ bounds -------------------------------- *)

\* Live entry objects (dicts referenced by loading_files or loaded_files),
\* and the length of loaded_files up to which a commit is still started.
MaxFiles == 3

(* ----------------------------- constants ------------------------------ *)

FILE_TYPES == <<"tsun", "cb", "pb", "other">>

Categories == {FILE_TYPES[i] : i \in DOMAIN FILE_TYPES}

\* A path is a sequence of tokens; "/" separates directories and the last
\* token of a file with an extension is that extension.
Paths ==
    { <<"dir", "/", "a", ".csv">>,
      <<"b", ".xlsx">>,
      <<"n", ".txt">> }

\* The data types the operator picks in an option menu: the default and
\* one other value of FILE_TYPES.
Picked == {FILE_TYPES[1], FILE_TYPES[2]}

Ids == 1..MaxFiles

VARIABLES
    variant,             \* which program runs: "frontend" or "backend"
                         \* ("side by side": both, see SideBySide, where
                         \* every variable below holds one value per program)
    op,                  \* the handler that just ran ("": Tk waits for an event)
    event,               \* the arguments that handler was called with
    loading_files,       \* list of references to entry objects
    loaded_files,        \* list of references to entry objects
    heap,                \* entry objects: id -> [path, data_type]
    loading_list_frame,  \* widgets rendered by update_loading_list
    loaded_list_frame,   \* widgets rendered by update_loaded_list
    messages,            \* message boxes shown by the handler that just ran
    calls,               \* pandas / db_handler calls made by that handler
    exc                  \* exception that left that handler ("" if none)

vars ==
    <<variant, op, event, loading_files, loaded_files, heap, loading_list_frame,
      loaded_list_frame, messages, calls, exc>>

(* ------------------------------ helpers ------------------------------- *)

\* str.endswith(suffix) for the extensions the programs test.
endswith(filepath, suffix) ==
    Len(filepath) > 0 /\ filepath[Len(filepath)] = suffix

RECURSIVE LastSlash(_, _)
LastSlash(filepath, i) ==
    IF i = 0 THEN 0
    ELSE IF filepath[i] = "/" THEN i
    ELSE LastSlash(filepath, i - 1)

\* file_path.split('/')[-1]
basename(filepath) ==
    SubSeq(filepath, LastSlash(filepath, Len(filepath)) + 1, Len(filepath))

Range(seq) == {seq[i] : i \in DOMAIN seq}

\* The text of a message box: a fixed text, and for the f-string of the
\* mismatch report the file name and the data type formatted into it.
Text(text) == [text |-> text, file |-> <<>>, data_type |-> ""]

\* messagebox.showerror / messagebox.showinfo
showerror(title, message) == [box |-> "showerror", title |-> title, message |-> message]

showinfo(title, message) == [box |-> "showinfo", title |-> title, message |-> message]

\* One call to an external collaborator, with how it returned.
Call(fn, arg1, arg2, ret) == [fn |-> fn, arg1 |-> arg1, arg2 |-> arg2, ret |-> ret]

\* The state of one program, as a record of its module-level objects.
Session ==
    [ loading_files |-> loading_files,
      loaded_files |-> loaded_files,
      heap |-> heap,
      loading_list_frame |-> loading_list_frame,
      loaded_list_frame |-> loaded_list_frame,
      messages |-> messages,
      calls |-> calls,
      exc |-> exc ]

\* State at the start of a handler: nothing shown, nothing called yet.
Enter(s) == [s EXCEPT !.messages = <<>>, !.calls = <<>>, !.exc = ""]

\* The position of the first reference to the object id in refs.
First(refs, id) ==
    CHOOSE k \in DOMAIN refs : refs[k] = id /\ \A j \in 1..(k - 1) : refs[j] # id

\* An object's identity carries no information but equality: the objects
\* refs refers to are numbered in order of first reference.
Renumber(s, refs) ==
    LET number == [id \in Range(refs) |->
                     Cardinality({j \in Range(refs) : First(refs, j) <= First(refs, id)})]
    IN
    [s EXCEPT
        !.heap = [k \in 1..Cardinality(Range(refs)) |->
                     s.heap[CHOOSE id \in Range(refs) : number[id] = k]],
        !.loaded_files = [i \in DOMAIN s.loaded_files |-> number[s.loaded_files[i]]],
        !.loading_files = [i \in DOMAIN s.loading_files |-> number[s.loading_files[i]]],
        !.loading_list_frame =
            [i \in DOMAIN s.loading_list_frame |->
                [s.loading_list_frame[i] EXCEPT !.variable = number[@]]]]

\* Whether the objects refs refers to are all the objects of the heap and
\* are already numbered in order of first reference.
Numbered(s, refs) ==
    /\ DOMAIN s.heap = Range(refs)
    /\ \A k \in DOMAIN refs :
          \/ refs[k] = 1
          \/ \E j \in 1..(k - 1) : refs[j] \in {refs[k], refs[k] - 1}

\* Entry objects that neither list nor a rendered option menu refers to any
\* more are collected; the live ones are numbered in order of first
\* reference (loaded_files, then loading_files, then the option menus).
Collect(s) ==
    CHOOSE r \in
        { IF Numbered(s, refs) THEN s ELSE Renumber(s, refs) :
            refs \in { s.loaded_files \o s.loading_files
                       \o [i \in DOMAIN s.loading_list_frame |->
                              s.loading_list_frame[i].variable] } } : TRUE

\* An identity for a freshly created dict.
NewId(s) == CHOOSE i \in Ids : i \notin DOMAIN s.heap

(* ------------------------------ display ------------------------------- *)

\* One row per staged entry: a label with the file name, an option menu
\* bound to the entry's StringVar, and a Delete button that captured idx.
update_loading_list(s) ==
    [s EXCEPT !.loading_list_frame =
        [i \in 1..Len(s.loading_files) |->
            [ label |-> basename(s.heap[s.loading_files[i]].path),
              variable |-> s.loading_files[i],
              idx |-> i - 1 ]]]

\* One label per committed entry.
update_loaded_list(s) ==
    [s EXCEPT !.loaded_list_frame =
        [i \in 1..Len(s.loaded_files) |->
            basename(s.heap[s.loaded_files[i]].path)]]

(* --------------------------- staging registry ------------------------- *)

\* Mutant of AppendEntry: a path that is already staged is not appended again.
AppendEntry_dedup(s, filepath) ==
    LET id == NewId(s) IN
    IF \E i \in DOMAIN s.loading_files :
           s.heap[s.loading_files[i]].path = filepath
    THEN update_loading_list(s)
    ELSE update_loading_list(
             [s EXCEPT !.heap = [i \in DOMAIN s.heap \cup {id} |->
                                    IF i = id
                                    THEN [path |-> filepath, data_type |-> "tsun"]
                                    ELSE s.heap[i]],
                       !.loading_files = Append(s.loading_files, id)])

\* The list with a new dict {"path": filepath, "data_type": StringVar("tsun")}
\* appended, then the display refresh.
AppendEntry(s, filepath) ==
    LET id == NewId(s) IN
    update_loading_list(
        [s EXCEPT !.heap = [i \in DOMAIN s.heap \cup {id} |->
                               IF i = id
                               THEN [path |-> filepath, data_type |-> "tsun"]
                               ELSE s.heap[i]],
                  !.loading_files = Append(s.loading_files, id)])

\* frontend.py read_file: the whole body is inside try/except Exception.
\* parses: whether pandas reads the file without raising.
frontend_read_file(s0, filepath, parses) ==
    LET s == Enter(s0) IN
    IF endswith(filepath, ".csv") \/ endswith(filepath, ".xlsx")
    THEN LET reader == IF endswith(filepath, ".csv")
                       THEN "pd.read_csv" ELSE "pd.read_excel" IN
         IF parses
         THEN AppendEntry(
                  [s EXCEPT !.calls = <<Call(reader, filepath, "", "None")>>],
                  filepath)
         ELSE [s EXCEPT !.calls = <<Call(reader, filepath, "", "raise")>>,
                        !.messages = <<showerror("Error", Text("Failed to read file"))>>]
    ELSE [s EXCEPT !.messages = <<showerror("Error", Text("Unsupported file format."))>>]

\* backend.py read_file: no try/except, a pandas failure leaves the handler.
backend_read_file(s0, filepath, parses) ==
    LET s == Enter(s0) IN
    IF endswith(filepath, ".csv") \/ endswith(filepath, ".xlsx")
    THEN LET reader == IF endswith(filepath, ".csv")
                       THEN "pd.read_csv" ELSE "pd.read_excel" IN
         IF parses
         THEN AppendEntry(
                  [s EXCEPT !.calls = <<Call(reader, filepath, "", "None")>>],
                  filepath)
         ELSE [s EXCEPT !.calls = <<Call(reader, filepath, "", "raise")>>,
                        !.exc = "ReadFailure"]
    ELSE [s EXCEPT !.messages = <<showerror("Error", Text("Unsupported file format."))>>]

\* del lst[index] for 0 <= index < len(lst).
DelAt(lst, index) ==
    SubSeq(lst, 1, index) \o SubSeq(lst, index + 2, Len(lst))

\* Mutant of delete_loading_file: del loaded_files[index], the wrong list.
delete_loading_file_wrong_list(s0, index) ==
    LET s == Enter(s0) IN
    IF index < 0 \/ index >= Len(s.loaded_files)
    THEN [s EXCEPT !.exc = "IndexError"]
    ELSE update_loading_list(
            [s EXCEPT !.loaded_files = DelAt(s.loaded_files, index)])

\* Mutant of delete_loading_file: loading_files.pop(), the last entry goes
\* whatever the index.
delete_loading_file_pop_last(s0, index) ==
    LET s == Enter(s0) IN
    IF index < 0 \/ index >= Len(s.loading_files)
    THEN [s EXCEPT !.exc = "IndexError"]
    ELSE update_loading_list(
            [s EXCEPT !.loading_files =
                          SubSeq(s.loading_files, 1, Len(s.loading_files) - 1)])

\* delete_loading_file(index), the command of a Delete button.
delete_loading_file(s0, index) ==
    LET s == Enter(s0) IN
    IF index < 0 \/ index >= Len(s.loading_files)
    THEN [s EXCEPT !.exc = "IndexError"]
    ELSE update_loading_list(
            [s EXCEPT !.loading_files = DelAt(s.loading_files, index)])

\* The operator picks value in the option menu of a rendered row: the
\* menu sets the StringVar it is bound to.
select_file_type(s0, row, value) ==
    LET s == Enter(s0)
        id == s.loading_list_frame[row].variable IN
    [s EXCEPT !.heap[id].data_type = value]

(* --------------------------- commit orchestrator ---------------------- *)

\* f"File '{file_path.split('/')[-1]}' does not match the specified type
\* '{data_type}'. Please try again."
MismatchText(file_path, data_type) ==
    [ text |-> "does not match the specified type",
      file |-> basename(file_path),
      data_type |-> data_type ]

\* Mutant of validate_loop: the else is missing, a rejected entry is reported
\* and appended to valid_files all the same.
RECURSIVE validate_loop_no_else(_, _, _, _)
validate_loop_no_else(s, verdict, i, valid_files) ==
    IF i > Len(s.loading_files)
    THEN [s |-> s, valid_files |-> valid_files]
    ELSE LET file_info == s.loading_files[i]
             data_type == s.heap[file_info].data_type
             file_path == s.heap[file_info].path
             called == [s EXCEPT !.calls = Append(@,
                           Call("validate_file_type", file_path, data_type,
                                IF verdict[i] THEN "True" ELSE "False"))]
         IN  validate_loop_no_else(
                 IF ~verdict[i]
                 THEN [called EXCEPT !.messages = Append(@,
                          showerror("Error", MismatchText(file_path, data_type)))]
                 ELSE called,
                 verdict, i + 1, Append(valid_files, file_info))

\* Mutant of validate_loop: the loop breaks at the first entry the validator
\* rejects.
RECURSIVE validate_loop_break(_, _, _, _)
validate_loop_break(s, verdict, i, valid_files) ==
    IF i > Len(s.loading_files)
    THEN [s |-> s, valid_files |-> valid_files]
    ELSE LET file_info == s.loading_files[i]
             data_type == s.heap[file_info].data_type
             file_path == s.heap[file_info].path
             called == [s EXCEPT !.calls = Append(@,
                           Call("validate_file_type", file_path, data_type,
                                IF verdict[i] THEN "True" ELSE "False"))]
         IN  IF ~verdict[i]
             THEN [s |-> [called EXCEPT !.messages = Append(@,
                             showerror("Error", MismatchText(file_path, data_type)))],
                   valid_files |-> valid_files]
             ELSE validate_loop_break(called, verdict, i + 1,
                                      Append(valid_files, file_info))

\* frontend.py, the validation loop over loading_files from position i on.
\* verdict[i] is what db_handler.validate_file_type returns for the i-th
\* entry.  The result is the session and the list valid_files.
RECURSIVE validate_loop(_, _, _, _)
validate_loop(s, verdict, i, valid_files) ==
    IF i > Len(s.loading_files)
    THEN [s |-> s, valid_files |-> valid_files]
    ELSE LET file_info == s.loading_files[i]
             data_type == s.heap[file_info].data_type
             file_path == s.heap[file_info].path
             called == [s EXCEPT !.calls = Append(@,
                           Call("validate_file_type", file_path, data_type,
                                IF verdict[i] THEN "True" ELSE "False"))]
         IN  IF ~verdict[i]
             THEN validate_loop(
                      [called EXCEPT !.messages = Append(@,
                          showerror("Error", MismatchText(file_path, data_type)))],
                      verdict, i + 1, valid_files)
             ELSE validate_loop(called, verdict, i + 1,
                                Append(valid_files, file_info))

\* Mutant of record_loop: loaded_files.insert(0, file_info) instead of
\* loaded_files.append(file_info).
RECURSIVE record_loop_insert_front(_, _, _, _, _)
record_loop_insert_front(s, fn, files, j, failAt) ==
    IF j > Len(files)
    THEN s
    ELSE LET file_info == files[j]
             data_type == s.heap[file_info].data_type
             file_path == s.heap[file_info].path
         IN  IF j = failAt
             THEN [s EXCEPT !.calls = Append(@,
                                Call(fn, file_path, data_type, "raise")),
                            !.exc = "RecordError"]
             ELSE record_loop_insert_front(
                      [s EXCEPT !.calls = Append(@,
                                    Call(fn, file_path, data_type, "None")),
                                !.loaded_files = <<file_info>> \o @],
                      fn, files, j + 1, failAt)

\* Mutant of record_loop: the call is wrapped in try/except and the loop goes
\* on with the next file after a failure.
RECURSIVE record_loop_continue(_, _, _, _, _)
record_loop_continue(s, fn, files, j, failAt) ==
    IF j > Len(files)
    THEN s
    ELSE LET file_info == files[j]
             data_type == s.heap[file_info].data_type
             file_path == s.heap[file_info].path
         IN  IF j = failAt
             THEN record_loop_continue(
                      [s EXCEPT !.calls = Append(@,
                                    Call(fn, file_path, data_type, "raise"))],
                      fn, files, j + 1, failAt)
             ELSE record_loop_continue(
                      [s EXCEPT !.calls = Append(@,
                                    Call(fn, file_path, data_type, "None")),
                                !.loaded_files = Append(@, file_info)],
                      fn, files, j + 1, failAt)

\* The recording loop over files from position j on: record the entry with
\* the db_handler method fn, then append it to loaded_files.  The failAt-th
\* call raises (failAt = 0: none does) and the exception leaves the loop.
RECURSIVE record_loop(_, _, _, _, _)
record_loop(s, fn, files, j, failAt) ==
    IF j > Len(files)
    THEN s
    ELSE LET file_info == files[j]
             data_type == s.heap[file_info].data_type
             file_path == s.heap[file_info].path
         IN  IF j = failAt
             THEN [s EXCEPT !.calls = Append(@,
                                Call(fn, file_path, data_type, "raise")),
                            !.exc = "RecordError"]
             ELSE record_loop(
                      [s EXCEPT !.calls = Append(@,
                                    Call(fn, file_path, data_type, "None")),
                                !.loaded_files = Append(@, file_info)],
                      fn, files, j + 1, failAt)

\* Mutant of finish_upload: the closing messagebox.showinfo is missing.
finish_upload_silent(s, text) ==
    update_loaded_list(update_loading_list([s EXCEPT !.loading_files = <<>>]))

\* loading_files.clear(); update_loading_list(); update_loaded_list();
\* messagebox.showinfo("Success", text)
finish_upload(s, text) ==
    LET cleared == [s EXCEPT !.loading_files = <<>>]
        shown == update_loaded_list(update_loading_list(cleared))
    IN  [shown EXCEPT !.messages = Append(@, showinfo("Success", Text(text)))]

\* Mutant of frontend_upload_all_files: valid_files is recorded from its last
\* entry to its first.
frontend_upload_all_files_reversed(s0, verdict, failAt) ==
    LET s == Enter(s0) IN
    IF s.loading_files = <<>>
    THEN [s EXCEPT !.messages = <<showerror("Error", Text("No files to upload."))>>]
    ELSE LET v == validate_loop(s, verdict, 1, <<>>)
             n == Len(v.valid_files) IN
         IF v.valid_files = <<>>
         THEN v.s
         ELSE LET r == record_loop(v.s, "start_searching_process",
                                   [j \in 1..n |-> v.valid_files[n + 1 - j]],
                                   1, failAt) IN
              IF r.exc # ""
              THEN r
              ELSE finish_upload(r, "All valid files uploaded successfully!")

\* Mutant of frontend_upload_all_files: the early return on an empty
\* valid_files is missing.
frontend_upload_all_files_no_return(s0, verdict, failAt) ==
    LET s == Enter(s0) IN
    IF s.loading_files = <<>>
    THEN [s EXCEPT !.messages = <<showerror("Error", Text("No files to upload."))>>]
    ELSE LET v == validate_loop(s, verdict, 1, <<>>)
             r == record_loop(v.s, "start_searching_process",
                              v.valid_files, 1, failAt) IN
         IF r.exc # ""
         THEN r
         ELSE finish_upload(r, "All valid files uploaded successfully!")

\* frontend.py upload_all_files.
frontend_upload_all_files(s0, verdict, failAt) ==
    LET s == Enter(s0) IN
    IF s.loading_files = <<>>
    THEN [s EXCEPT !.messages = <<showerror("Error", Text("No files to upload."))>>]
    ELSE LET v == validate_loop(s, verdict, 1, <<>>) IN
         IF v.valid_files = <<>>
         THEN v.s
         ELSE LET r == record_loop(v.s, "start_searching_process",
                                   v.valid_files, 1, failAt) IN
              IF r.exc # ""
              THEN r
              ELSE finish_upload(r, "All valid files uploaded successfully!")

\* Mutant of backend_upload_all_files: the check for an empty loading_files
\* is missing.
backend_upload_all_files_no_guard(s0, failAt) ==
    LET s == Enter(s0)
        r == record_loop(s, "start_process", s.loading_files, 1, failAt) IN
    IF r.exc # ""
    THEN r
    ELSE finish_upload(r, "All files uploaded successfully!")

\* backend.py upload_all_files.
backend_upload_all_files(s0, failAt) ==
    LET s == Enter(s0) IN
    IF s.loading_files = <<>>
    THEN [s EXCEPT !.messages = <<showerror("Error", Text("No files to upload."))>>]
    ELSE LET r == record_loop(s, "start_process", s.loading_files, 1, failAt) IN
         IF r.exc # ""
         THEN r
         ELSE finish_upload(r, "All files uploaded successfully!")

(* ------------------------------- export ------------------------------- *)

\* Mutant of export_all_files: loaded_files.clear() and update_loaded_list()
\* after db_handler.export has returned.
export_all_files_clear(s0, destination, text, ok) ==
    LET s == Enter(s0) IN
    IF s.loaded_files = <<>>
    THEN [s EXCEPT !.messages = <<showerror("Error", Text("No files to export."))>>]
    ELSE IF ok
         THEN update_loaded_list(
                  [s EXCEPT !.calls = <<Call("export", destination, "", "None")>>,
                            !.loaded_files = <<>>,
                            !.messages = <<showinfo("Success", Text(text))>>])
         ELSE [s EXCEPT !.calls = <<Call("export", destination, "", "raise")>>,
                        !.exc = "ExportError"]

\* Mutant of export_all_files: the check for an empty loaded_files is missing.
export_all_files_no_guard(s0, destination, text, ok) ==
    LET s == Enter(s0) IN
    IF ok
    THEN [s EXCEPT !.calls = <<Call("export", destination, "", "None")>>,
                   !.messages = <<showinfo("Success", Text(text))>>]
    ELSE [s EXCEPT !.calls = <<Call("export", destination, "", "raise")>>,
                   !.exc = "ExportError"]

\* export_all_files of either program: destination is the path handed to
\* db_handler.export, text the success message, ok whether export returns.
export_all_files(s0, destination, text, ok) ==
    LET s == Enter(s0) IN
    IF s.loaded_files = <<>>
    THEN [s EXCEPT !.messages = <<showerror("Error", Text("No files to export."))>>]
    ELSE IF ok
         THEN [s EXCEPT !.calls = <<Call("export", destination, "", "None")>>,
                        !.messages = <<showinfo("Success", Text(text))>>]
         ELSE [s EXCEPT !.calls = <<Call("export", destination, "", "raise")>>,
                        !.exc = "ExportError"]

frontend_export_all_files(s0, ok) ==
    export_all_files(s0, <<"NEW_COMPANIES_PATH">>,
                     "All files exported successfully!", ok)

backend_export_all_files(s0, ok) ==
    export_all_files(s0, <<"main", "/", "new1", ".xlsx">>,
                     "All files exported successfully", ok)

(* ------------------------------ the program --------------------------- *)

Init ==
    /\ variant \in {"frontend", "backend"}
    /\ op = ""
    /\ event = <<>>
    /\ loading_files = <<>>
    /\ loaded_files = <<>>
    /\ heap = <<>>
    /\ loading_list_frame = <<>>
    /\ loaded_list_frame = <<>>
    /\ messages = <<>>
    /\ calls = <<>>
    /\ exc = ""

\* The handler named name ran with the arguments args and left the session
\* Collect(left) behind.
Ran(name, args, left) ==
    \E l \in {left} : \E r \in {Collect(l)} :
    /\ op' = name
    /\ event' = args
    /\ loading_files' = r.loading_files
    /\ loaded_files' = r.loaded_files
    /\ heap' = r.heap
    /\ loading_list_frame' = r.loading_list_frame
    /\ loaded_list_frame' = r.loaded_list_frame
    /\ messages' = r.messages
    /\ calls' = r.calls
    /\ exc' = r.exc
    /\ UNCHANGED variant

\* root.mainloop() waits for the next event.
Waiting == op = ""

\* The handler has returned (or Tk has reported its exception): the event
\* loop waits for the next event.  No object of the program changes.
ReturnToMainloop ==
    /\ ~Waiting
    /\ op' = ""
    /\ event' = <<>>
    /\ messages' = <<>>
    /\ calls' = <<>>
    /\ exc' = ""
    /\ UNCHANGED <<variant, loading_files, loaded_files, heap,
                   loading_list_frame, loaded_list_frame>>

Recognized(filepath) == endswith(filepath, ".csv") \/ endswith(filepath, ".xlsx")

\* open_file_dialog / drop hand a non-empty path to read_file.
FrontendReadFile ==
    /\ Waiting
    /\ variant = "frontend"
    /\ \E filepath \in Paths, parses \in BOOLEAN :
          /\ (Recognized(filepath) /\ parses) => Cardinality(DOMAIN heap) < MaxFiles
          /\ Ran("read_file", <<filepath>>, frontend_read_file(Session, filepath, parses))

BackendReadFile ==
    /\ Waiting
    /\ variant = "backend"
    /\ \E filepath \in Paths, parses \in BOOLEAN :
          /\ (Recognized(filepath) /\ parses) => Cardinality(DOMAIN heap) < MaxFiles
          /\ Ran("read_file", <<filepath>>, backend_read_file(Session, filepath, parses))

\* The operator presses the Delete button of a rendered row.
DeleteLoadingFile ==
    /\ Waiting
    /\ \E row \in DOMAIN loading_list_frame :
          Ran("delete_loading_file", <<loading_list_frame[row].idx>>,
              delete_loading_file(Session, loading_list_frame[row].idx))

\* The operator picks a data type in the option menu of a rendered row.
SelectFileType ==
    /\ Waiting
    /\ \E row \in DOMAIN loading_list_frame, value \in Picked :
          Ran("select_file_type", <<row, value>>, select_file_type(Session, row, value))

\* A commit is started while loaded_files has room for the batch.
Room == loading_files = <<>> \/ Len(loaded_files) + Len(loading_files) <= MaxFiles

FrontendUploadAllFiles ==
    /\ Waiting
    /\ variant = "frontend"
    /\ Room
    /\ \E verdict \in [DOMAIN loading_files -> BOOLEAN],
          failAt \in 0..Len(loading_files) :
          /\ failAt <= Cardinality({i \in DOMAIN loading_files : verdict[i]})
          /\ Ran("upload_all_files", <<>>,
                 frontend_upload_all_files(Session, verdict, failAt))

BackendUploadAllFiles ==
    /\ Waiting
    /\ variant = "backend"
    /\ Room
    /\ \E failAt \in 0..Len(loading_files) :
          Ran("upload_all_files", <<>>, backend_upload_all_files(Session, failAt))

FrontendExportAllFiles ==
    /\ Waiting
    /\ variant = "frontend"
    /\ \E ok \in BOOLEAN :
          Ran("export_all_files", <<>>, frontend_export_all_files(Session, ok))

BackendExportAllFiles ==
    /\ Waiting
    /\ variant = "backend"
    /\ \E ok \in BOOLEAN :
          Ran("export_all_files", <<>>, backend_export_all_files(Session, ok))

Next ==
    \/ FrontendReadFile
    \/ BackendReadFile
    \/ DeleteLoadingFile
    \/ SelectFileType
    \/ FrontendUploadAllFiles
    \/ BackendUploadAllFiles
    \/ FrontendExportAllFiles
    \/ BackendExportAllFiles
    \/ ReturnToMainloop

Spec == Init /\ [][Next]_vars

(* ------------------------- vocabulary of the claims ------------------- *)

\* The entries a list of references denotes: (path, data_type) per position.
Entries(files, h) == [i \in DOMAIN files |-> h[files[i]]]

\* Staging Registry and Committed Registry, as ordered (path, category) lists.
StagingRegistry == Entries(loading_files, heap)

CommittedRegistry == Entries(loaded_files, heap)

\* The calls of a log made to the function fn.
CallsTo(log, fn) == SelectSeq(log, LAMBDA c : c.fn = fn)

\* The record operation of the Record Store, under either of its names.
IsRecord(c) == c.fn \in {"start_searching_process", "start_process"}

RecordCalls(log) == SelectSeq(log, IsRecord)

\* The (path, category) pairs of the calls of a log, in call order.
Args(log) == [i \in DOMAIN log |-> [path |-> log[i].arg1, data_type |-> log[i].arg2]]

\* The validator's answers of a log, in call order.
Verdicts(log) == [i \in DOMAIN CallsTo(log, "validate_file_type") |->
                    CallsTo(log, "validate_file_type")[i].ret]

\* The sub-list of seq at the positions where keep holds, in order.
RECURSIVE Keep(_, _, _)
Keep(seq, keep, i) ==
    IF i > Len(seq) THEN <<>>
    ELSE (IF keep[i] THEN <<seq[i]>> ELSE <<>>) \o Keep(seq, keep, i + 1)

\* The mismatch reports among the message boxes of a handler.
MismatchReports(boxes) ==
    SelectSeq(boxes, LAMBDA b : b.box = "showerror" /\ b.message.file # <<>>)

\* The aggregate success report of a commit.
IsSuccessReport(b) ==
    /\ b.box = "showinfo"
    /\ b.message.text \in {"All valid files uploaded successfully!",
                           "All files uploaded successfully!"}

SuccessReports(boxes) == SelectSeq(boxes, IsSuccessReport)

\* The step is a commit (upload_all_files) on a non-empty Staging Registry.
CommitStep == op' = "upload_all_files" /\ loading_files # <<>>

\* The validator of the step answered once per staged entry; in the
\* non-validating program every entry counts as validated.
StepVerdicts ==
    IF variant = "frontend"
    THEN Verdicts(calls')
    ELSE [i \in DOMAIN loading_files |-> "True"]

\* The staged entries the step validated / rejected, in staging order.
StepValidated ==
    Keep(StagingRegistry, [i \in DOMAIN StepVerdicts |-> StepVerdicts[i] = "True"], 1)

StepRejected ==
    Keep(StagingRegistry, [i \in DOMAIN StepVerdicts |-> StepVerdicts[i] = "False"], 1)

(* -------------------------------- claims ------------------------------ *)

\* C1: a commit that runs to the end (no record call raises), in which the
\* validator rejects some staged entries and accepts at least one, leaves
\* the Staging Registry empty, extends the Committed Registry by exactly the
\* validated entries in their staging order, and shows exactly one mismatch
\* report per rejected entry, naming its file and its declared category.
C1_PartialCommit ==
    [][ (CommitStep /\ exc' = "" /\ StepRejected # <<>> /\ StepValidated # <<>>)
        => /\ Len(StepVerdicts) = Len(loading_files)
           /\ loading_files' = <<>>
           /\ Entries(loaded_files', heap') = CommittedRegistry \o StepValidated
           /\ MismatchReports(messages') =
                 [i \in DOMAIN StepRejected |->
                     showerror("Error", MismatchText(StepRejected[i].path,
                                                     StepRejected[i].data_type))]
      ]_vars

\* C1 witness: three entries were staged, the validator rejected only the
\* second, and the commit ended with two entries committed.
C1_Witness ==
    /\ op = "upload_all_files"
    /\ exc = ""
    /\ Verdicts(calls) = <<"True", "False", "True">>
    /\ loading_files = <<>>
    /\ Len(loaded_files) = 2
    /\ Len(MismatchReports(messages)) = 1

\* C2: a commit in which the validator rejects every staged entry leaves the
\* Staging Registry as it was (same entries, same order, same declared
\* categories), leaves the Committed Registry as it was, and makes no call
\* to the Record Store's record operation.
C2_AllRejectedCommit ==
    [][ (CommitStep /\ StepValidated = <<>>)
        => /\ loading_files' = loading_files
           /\ Entries(loading_files', heap') = StagingRegistry
           /\ loaded_files' = loaded_files
           /\ Entries(loaded_files', heap') = CommittedRegistry
           /\ RecordCalls(calls') = <<>>
      ]_vars

\* C2 witness: a commit rejected both staged entries, one of them with a
\* category the operator had changed, and both are still staged.
C2_Witness ==
    /\ op = "upload_all_files"
    /\ Verdicts(calls) = <<"False", "False">>
    /\ Len(loading_files) = 2
    /\ \E i \in DOMAIN loading_files : heap[loading_files[i]].data_type # "tsun"
    /\ RecordCalls(calls) = <<>>

\* An aggregate failure report: an error box that is not the report of one
\* entry's mismatch.
AggregateFailureReports(boxes) ==
    SelectSeq(boxes, LAMBDA b : b.box = "showerror" /\ b.message.file = <<>>)

\* C3 as stated: every commit on a non-empty Staging Registry that runs to
\* the end reports exactly one aggregate outcome, aggregate success if an
\* entry was committed and aggregate failure if all entries were rejected.
C3_AsStated ==
    [][ (CommitStep /\ exc' = "")
        => /\ Len(SuccessReports(messages')) + Len(AggregateFailureReports(messages')) = 1
           /\ StepValidated # <<>> => Len(SuccessReports(messages')) = 1
           /\ StepValidated = <<>> => Len(AggregateFailureReports(messages')) = 1
      ]_vars

\* C3 (amended): a commit on a non-empty Staging Registry that runs to the
\* end reports aggregate success, exactly once and as its last message,
\* if and only if at least one entry was committed; when every entry was
\* rejected it reports no aggregate outcome at all, only the per-entry
\* mismatch reports.
C3_AggregateOutcome ==
    [][ (CommitStep /\ exc' = "")
        => /\ AggregateFailureReports(messages') = <<>>
           /\ Len(messages') =
                 Len(MismatchReports(messages')) + Len(SuccessReports(messages'))
           /\ Len(MismatchReports(messages')) = Len(StepRejected)
           /\ StepValidated # <<>> =>
                 /\ Len(SuccessReports(messages')) = 1
                 /\ IsSuccessReport(messages'[Len(messages')])
                 /\ Len(loaded_files') > Len(loaded_files)
           /\ StepValidated = <<>> =>
                 /\ SuccessReports(messages') = <<>>
                 /\ loaded_files' = loaded_files
      ]_vars

\* C3 witness: a commit whose only entry was rejected ended with the
\* mismatch report as its only message.
C3_Witness ==
    /\ op = "upload_all_files"
    /\ exc = ""
    /\ Verdicts(calls) = <<"False">>
    /\ Len(messages) = 1
    /\ Len(MismatchReports(messages)) = 1
    /\ loading_files # <<>>

\* C4: a commit that runs to the end and in which every staged entry
\* validates (always so in the non-validating program) leaves the Staging
\* Registry empty and extends the Committed Registry by exactly the staged
\* entries, in staging order, each with its path and the category declared
\* for it when the commit started.
C4_FullCommit ==
    [][ (CommitStep /\ exc' = "" /\ StepRejected = <<>>)
        => /\ Len(StepValidated) = Len(loading_files)
           /\ loading_files' = <<>>
           /\ Len(loaded_files') = Len(loaded_files) + Len(loading_files)
           /\ Entries(loaded_files', heap') = CommittedRegistry \o StagingRegistry
      ]_vars

\* C4 witness: the non-validating program committed two entries in one
\* batch, the first with a category the operator had set, the second with
\* the default.
C4_Witness ==
    /\ variant = "backend"
    /\ op = "upload_all_files"
    /\ exc = ""
    /\ loading_files = <<>>
    /\ Len(RecordCalls(calls)) = 2
    /\ Len(loaded_files) = 2
    /\ CommittedRegistry[1].data_type = "cb"
    /\ CommittedRegistry[2].data_type = "tsun"

\* The report of NoFilesStagedError.
NoFilesReport == showerror("Error", Text("No files to upload."))

\* C5: a commit on an empty Staging Registry shows the "No files to upload."
\* error and nothing else, leaves both registries as they were, and calls
\* neither the validator nor the Record Store.
C5_EmptyCommit ==
    [][ (op' = "upload_all_files" /\ loading_files = <<>>)
        => /\ messages' = <<NoFilesReport>>
           /\ exc' = ""
           /\ calls' = <<>>
           /\ loading_files' = <<>>
           /\ loaded_files' = loaded_files
           /\ Entries(loaded_files', heap') = CommittedRegistry
      ]_vars

\* C5 witness: a commit on an empty Staging Registry was refused while the
\* Committed Registry held entries.
C5_Witness ==
    /\ op = "upload_all_files"
    /\ messages = <<NoFilesReport>>
    /\ loading_files = <<>>
    /\ Len(loaded_files) >= 1
    /\ calls = <<>>

\* The record calls of the step, and whether one of them raised.
StepRecords == RecordCalls(calls')

StepRecordFailed == \E i \in DOMAIN StepRecords : StepRecords[i].ret = "raise"

\* C6: when a record call of a commit raises, the exception leaves the
\* handler (the commit ends in a fatal error): the failing call is the last
\* call of the commit, so no later entry of the batch is recorded or
\* appended; no aggregate success is reported; and the entries recorded
\* before the fault, and only they, have been appended to the Committed
\* Registry, where they stay (no rollback).
C6_RecordFailure ==
    [][ (CommitStep /\ StepRecordFailed)
        => /\ exc' = "RecordError"
           /\ calls'[Len(calls')].ret = "raise"
           /\ \A i \in 1..(Len(StepRecords) - 1) : StepRecords[i].ret = "None"
           /\ Args(StepRecords) = SubSeq(StepValidated, 1, Len(StepRecords))
           /\ SuccessReports(messages') = <<>>
           /\ Entries(loaded_files', heap') =
                 CommittedRegistry \o SubSeq(StepValidated, 1, Len(StepRecords) - 1)
      ]_vars

\* C6 witness: of three validated entries the first was recorded and
\* committed, the record call of the second raised, the third was never
\* recorded.
C6_Witness ==
    /\ op = "upload_all_files"
    /\ exc = "RecordError"
    /\ Len(loading_files) = 3
    /\ Len(RecordCalls(calls)) = 2
    /\ RecordCalls(calls)[1].ret = "None"
    /\ RecordCalls(calls)[2].ret = "raise"
    /\ Len(loaded_files) = 1

\* C7 (invariant I2): between user actions no entry object is referred to
\* by both the Staging Registry and the Committed Registry.
C7_Disjoint ==
    Range(loading_files) \cap Range(loaded_files) = {}

\* C8: a committed entry is never mutated: at every position of the
\* Committed Registry the path and the category are the same after every
\* step as before it.
C8_CommittedImmutable ==
    [][ \A i \in DOMAIN loaded_files :
            /\ i \in DOMAIN loaded_files'
            /\ Entries(loaded_files', heap')[i] = CommittedRegistry[i]
      ]_vars

NothingToExportReport == showerror("Error", Text("No files to export."))

\* C10: an export with an empty Committed Registry shows the "No files to
\* export." error and nothing else, does not call the Record Store's
\* export, and leaves both registries as they were.
C10_EmptyExport ==
    [][ (op' = "export_all_files" /\ loaded_files = <<>>)
        => /\ messages' = <<NothingToExportReport>>
           /\ exc' = ""
           /\ calls' = <<>>
           /\ loaded_files' = <<>>
           /\ loading_files' = loading_files
           /\ Entries(loading_files', heap') = StagingRegistry
      ]_vars

\* C10 witness: an export was refused while entries were staged and none
\* was committed.
C10_Witness ==
    /\ op = "export_all_files"
    /\ messages = <<NothingToExportReport>>
    /\ calls = <<>>
    /\ loaded_files = <<>>
    /\ Len(loading_files) >= 2

(* ------------------------------ C11 .. C13 ---------------------------- *)

\* The step is a run of read_file.
AddStep == op' = "read_file"

\* The step is a run of read_file on a path with a recognized extension that
\* pandas read without raising.
AddSucceeded ==
    /\ AddStep
    /\ calls' # <<>>
    /\ calls'[1].fn \in {"pd.read_csv", "pd.read_excel"}
    /\ calls'[1].ret = "None"

\* The step is a run of read_file on a path whose extension is not
\* recognized (no reader is called) or that pandas failed to read.
AddFailed ==
    /\ AddStep
    /\ \/ calls' = <<>>
       \/ calls'[1].ret = "raise"

\* C11: an add of a parseable file with a recognized extension appends
\* exactly one entry {path, tsun} at the end of the Staging Registry,
\* whatever the registry held, a path already staged included: the length
\* grows by one, the entries before it are as they were, the new entry is an
\* object of its own, and the Committed Registry is as it was.  Step by
\* step, a sequence of such adds grows the registry by their number, in call
\* order.
C11_SuccessfulAdd ==
    [][ AddSucceeded =>
          /\ Len(loading_files') = Len(loading_files) + 1
          /\ Entries(loading_files', heap') =
                 StagingRegistry
                     \o <<[path |-> event'[1], data_type |-> "tsun"]>>
          /\ \A i \in 1..Len(loading_files) :
                 loading_files'[i] # loading_files'[Len(loading_files')]
          /\ \A i \in DOMAIN loaded_files' :
                 loaded_files'[i] # loading_files'[Len(loading_files')]
          /\ Entries(loaded_files', heap') = CommittedRegistry
      ]_vars

\* An add has just staged a path that was already staged: two entries, two
\* objects.
C11_Witness ==
    /\ op = "read_file"
    /\ calls # <<>>
    /\ calls[1].ret = "None"
    /\ Len(loading_files) >= 2
    /\ LET n == Len(loading_files) IN
       /\ heap[loading_files[n]].path = event[1]
       /\ heap[loading_files[n - 1]].path = event[1]
       /\ loading_files[n] # loading_files[n - 1]

\* C12: a failed add, of a path with an unrecognized extension or of a file
\* pandas cannot read, ends inside the handler with one error box shown to
\* the operator, and leaves both registries as they were.
C12_FailedAdd ==
    [][ AddFailed =>
          /\ exc' = ""
          /\ Len(messages') = 1
          /\ messages'[1].box = "showerror"
          /\ Entries(loading_files', heap') = StagingRegistry
          /\ Entries(loaded_files', heap') = CommittedRegistry
      ]_vars

\* The step is a press of the Delete button bound to a position inside the
\* Staging Registry.
RemoveStep ==
    /\ op' = "delete_loading_file"
    /\ event'[1] \in 0..(Len(loading_files) - 1)

\* C13: remove(index) with 0 <= index < N removes exactly the entry at that
\* index: N-1 entries are left, those before the index where they were and
\* those after it one place earlier, each with its path and its declared
\* category, and the Committed Registry is as it was.
C13_Remove ==
    [][ RemoveStep =>
          /\ exc' = ""
          /\ Len(loading_files') = Len(loading_files) - 1
          /\ \A i \in 1..(Len(loading_files) - 1) :
                 Entries(loading_files', heap')[i] =
                     StagingRegistry[IF i <= event'[1] THEN i ELSE i + 1]
          /\ Entries(loaded_files', heap') = CommittedRegistry
      ]_vars

\* The first of several staged entries has just been removed, and an entry
\* that is left carries a category the operator picked.
C13_Witness ==
    /\ op = "delete_loading_file"
    /\ exc = ""
    /\ event = <<0>>
    /\ Len(loading_files) >= 2
    /\ heap[loading_files[1]].data_type # "tsun"
    /\ heap[loading_files[1]].path # heap[loading_files[2]].path

(* --------------------------------- C14 -------------------------------- *)

\* The rendered staging list shows the Staging Registry: one row per entry,
\* in order, labelled with the entry's file name, its option menu bound to
\* the entry's category, its Delete button bound to the entry's position.
StagingDisplayCurrent ==
    /\ Len(loading_list_frame) = Len(loading_files)
    /\ \A i \in DOMAIN loading_files :
           /\ loading_list_frame[i].label = basename(heap[loading_files[i]].path)
           /\ loading_list_frame[i].variable = loading_files[i]
           /\ loading_list_frame[i].idx = i - 1

\* The rendered committed list shows the Committed Registry: one label per
\* entry, in order, with the entry's file name.
CommittedDisplayCurrent ==
    /\ Len(loaded_list_frame) = Len(loaded_files)
    /\ \A i \in DOMAIN loaded_files :
           loaded_list_frame[i] = basename(heap[loaded_files[i]].path)

\* C14: after every user action, one that ended in an error or a commit a
\* Record Store failure aborted included, the rendered staging list and the
\* positions of its Delete buttons (0..N-1) are those of the Staging
\* Registry and the rendered committed list is that of the Committed
\* Registry.
C14_DisplayCurrent ==
    StagingDisplayCurrent /\ CommittedDisplayCurrent

(* --------------------------------- C15 -------------------------------- *)

\* The positions of a log at which the validator / the record operation was
\* called.
ValidatePositions(log) == {k \in DOMAIN log : log[k].fn = "validate_file_type"}

RecordPositions(log) == {k \in DOMAIN log : IsRecord(log[k])}

\* C15: the validator is called only by commit.  A commit of the validating
\* program on a non-empty Staging Registry calls it exactly once per staged
\* entry, in registry order, with the entry's path and the category declared
\* for it when the commit starts, and every validate call of the commit is
\* made before its first record call.  A run of any other handler, and any
\* commit of the non-validating program, makes no validate call.  A commit
\* that made validate calls and no record call leaves both registries as
\* they were.
C15_ValidatorUse ==
    [][ /\ (op' # "upload_all_files" \/ variant = "backend")
               => ValidatePositions(calls') = {}
        /\ (CommitStep /\ variant = "frontend")
               => /\ Args(CallsTo(calls', "validate_file_type")) = StagingRegistry
                  /\ \A v \in ValidatePositions(calls') :
                         \A r \in RecordPositions(calls') : v < r
        /\ (CommitStep /\ RecordPositions(calls') = {})
               => /\ Entries(loading_files', heap') = StagingRegistry
                  /\ Entries(loaded_files', heap') = CommittedRegistry
      ]_vars

\* A commit of the validating program has just validated three staged
\* entries, the second of them rejected and one with a category the operator
\* picked, and then recorded.
C15_Witness ==
    /\ op = "upload_all_files"
    /\ variant = "frontend"
    /\ Len(calls) >= 4
    /\ calls[1].fn = "validate_file_type"
    /\ calls[2].fn = "validate_file_type" /\ calls[2].ret = "False"
    /\ calls[3].fn = "validate_file_type"
    /\ IsRecord(calls[4])
    /\ \E k \in 1..3 : calls[k].arg2 # "tsun"

(* --------------------------------- C16 -------------------------------- *)

\* What the Record Store took in during a handler: the (path, category)
\* pairs of the record calls of its log that returned, in call order.
Taken(log) ==
    Args(SelectSeq(log, LAMBDA c : IsRecord(c) /\ c.ret = "None"))

\* C16: the Committed Registry is exactly the sequence of (path, category)
\* pairs the Record Store's record operation has taken in during the
\* session, in call order.  Both are empty when the session starts, so the
\* two are equal in every reachable state exactly when every step extends
\* the Committed Registry by the pairs recorded during the step and by
\* nothing else, and changes none of the pairs it held.
C16_CommittedIsRecorded ==
    [][ Entries(loaded_files', heap') = CommittedRegistry \o Taken(calls')
      ]_vars

(* ----------------------- the two programs side by side ---------------- *)

(***************************************************************************)
(* frontend.py and backend.py run next to each other and receive the same  *)
(* events.  Each variable holds one value per program; op and event are    *)
(* those of the handler both have just run.  Every file with a recognized  *)
(* extension parses, db_handler.validate_file_type accepts every entry,    *)
(* and neither record operation nor export raises.                         *)
(***************************************************************************)
Programs == {"frontend", "backend"}

SessionOf(program) ==
    [ loading_files |-> loading_files[program],
      loaded_files |-> loaded_files[program],
      heap |-> heap[program],
      loading_list_frame |-> loading_list_frame[program],
      loaded_list_frame |-> loaded_list_frame[program],
      messages |-> messages[program],
      calls |-> calls[program],
      exc |-> exc[program] ]

SideBySideInit ==
    /\ variant = "side by side"
    /\ op = ""
    /\ event = <<>>
    /\ loading_files = [program \in Programs |-> <<>>]
    /\ loaded_files = [program \in Programs |-> <<>>]
    /\ heap = [program \in Programs |-> <<>>]
    /\ loading_list_frame = [program \in Programs |-> <<>>]
    /\ loaded_list_frame = [program \in Programs |-> <<>>]
    /\ messages = [program \in Programs |-> <<>>]
    /\ calls = [program \in Programs |-> <<>>]
    /\ exc = [program \in Programs |-> ""]

\* Both programs ran the handler named name with the arguments args;
\* frontend.py left the session Collect(f) behind, backend.py Collect(b).
BothRan(name, args, f, b) ==
    \E left \in {[frontend |-> Collect(f), backend |-> Collect(b)]} :
    /\ op' = name
    /\ event' = args
    /\ loading_files' = [program \in Programs |-> left[program].loading_files]
    /\ loaded_files' = [program \in Programs |-> left[program].loaded_files]
    /\ heap' = [program \in Programs |-> left[program].heap]
    /\ loading_list_frame' =
           [program \in Programs |-> left[program].loading_list_frame]
    /\ loaded_list_frame' =
           [program \in Programs |-> left[program].loaded_list_frame]
    /\ messages' = [program \in Programs |-> left[program].messages]
    /\ calls' = [program \in Programs |-> left[program].calls]
    /\ exc' = [program \in Programs |-> left[program].exc]
    /\ UNCHANGED variant

BothReturnToMainloop ==
    /\ ~Waiting
    /\ op' = ""
    /\ event' = <<>>
    /\ messages' = [program \in Programs |-> <<>>]
    /\ calls' = [program \in Programs |-> <<>>]
    /\ exc' = [program \in Programs |-> ""]
    /\ UNCHANGED <<variant, loading_files, loaded_files, heap,
                   loading_list_frame, loaded_list_frame>>

\* The same path is handed to read_file of both programs.
BothReadFile ==
    /\ Waiting
    /\ \E filepath \in Paths :
          /\ Recognized(filepath) =>
                 \A program \in Programs :
                     Cardinality(DOMAIN heap[program]) < MaxFiles
          /\ BothRan("read_file", <<filepath>>,
                     frontend_read_file(SessionOf("frontend"), filepath, TRUE),
                     backend_read_file(SessionOf("backend"), filepath, TRUE))

\* The Delete button of the same row is pressed in both windows.
BothDeleteLoadingFile ==
    /\ Waiting
    /\ \E row \in DOMAIN loading_list_frame["frontend"]
                      \cap DOMAIN loading_list_frame["backend"] :
          BothRan("delete_loading_file", <<row - 1>>,
                  delete_loading_file(SessionOf("frontend"),
                      loading_list_frame["frontend"][row].idx),
                  delete_loading_file(SessionOf("backend"),
                      loading_list_frame["backend"][row].idx))

\* The same category is picked in the option menu of the same row.
BothSelectFileType ==
    /\ Waiting
    /\ \E row \in DOMAIN loading_list_frame["frontend"]
                      \cap DOMAIN loading_list_frame["backend"],
          value \in Picked :
          BothRan("select_file_type", <<row, value>>,
                  select_file_type(SessionOf("frontend"), row, value),
                  select_file_type(SessionOf("backend"), row, value))

\* Upload All is pressed in both windows; the validator accepts every entry
\* and no record call raises.
BothUploadAllFiles ==
    /\ Waiting
    /\ \A program \in Programs :
           \/ loading_files[program] = <<>>
           \/ Len(loaded_files[program]) + Len(loading_files[program])
                  <= MaxFiles
    /\ BothRan("upload_all_files", <<>>,
               frontend_upload_all_files(SessionOf("frontend"),
                   [i \in DOMAIN loading_files["frontend"] |-> TRUE], 0),
               backend_upload_all_files(SessionOf("backend"), 0))

\* Export is pressed in both windows; db_handler.export returns.
BothExportAllFiles ==
    /\ Waiting
    /\ BothRan("export_all_files", <<>>,
               frontend_export_all_files(SessionOf("frontend"), TRUE),
               backend_export_all_files(SessionOf("backend"), TRUE))

SideBySideNext ==
    \/ BothReadFile
    \/ BothDeleteLoadingFile
    \/ BothSelectFileType
    \/ BothUploadAllFiles
    \/ BothExportAllFiles
    \/ BothReturnToMainloop

SideBySide == SideBySideInit /\ [][SideBySideNext]_vars

(* --------------------------------- C17 -------------------------------- *)

\* The two registries of a program, as ordered (path, category) lists.
RegistriesOf(program) ==
    [ staging |-> Entries(loading_files[program], heap[program]),
      committed |-> Entries(loaded_files[program], heap[program]) ]

\* The calls a program's handler made to the Record Store's record and
\* export operations, in call order, with their arguments: (path, category)
\* for record, the destination for export.
StoreCalls(program) ==
    LET log == SelectSeq(calls[program],
                         LAMBDA c : IsRecord(c) \/ c.fn = "export")
    IN  [k \in DOMAIN log |->
            [ operation |-> IF IsRecord(log[k]) THEN "record" ELSE "export",
              arg1 |-> log[k].arg1,
              arg2 |-> log[k].arg2 ]]

\* The same, without the destination of export.
StoreOperations(program) ==
    [k \in DOMAIN StoreCalls(program) |->
        IF StoreCalls(program)[k].operation = "export"
        THEN [StoreCalls(program)[k] EXCEPT !.arg1 = <<>>]
        ELSE StoreCalls(program)[k]]

\* C17 as stated: side by side, after every action the two programs hold
\* identical Staging and Committed Registries and have issued the same
\* record and export calls.
C17_AsStated ==
    /\ RegistriesOf("frontend") = RegistriesOf("backend")
    /\ StoreCalls("frontend") = StoreCalls("backend")

\* C17: side by side, on the same actions, with parseable files, a validator
\* that accepts every entry and a Record Store that does not fail, the two
\* programs hold identical Staging and Committed Registries after every
\* action, issue the same record calls with the same (path, category) pairs
\* in the same order, and call export at the same points; the destination
\* they hand to export is not the same expression (the environment's
\* NEW_COMPANIES_PATH in frontend.py, the literal 'main/new1.xlsx' in
\* backend.py).
C17_SameRegistriesAndOperations ==
    /\ RegistriesOf("frontend") = RegistriesOf("backend")
    /\ StoreOperations("frontend") = StoreOperations("backend")

\* Both programs have just committed two staged entries, one of them with a
\* category the operator picked, on top of an earlier commit.
C17_Witness ==
    /\ variant = "side by side"
    /\ op = "upload_all_files"
    /\ Len(StoreCalls("backend")) = 2
    /\ StoreCalls("backend")[1].arg2 # StoreCalls("backend")[2].arg2
    /\ Len(loaded_files["frontend"]) = 3
    /\ loading_files["backend"] = <<>>

(* --------------------------------- C18 -------------------------------- *)

\* The step is a run of export_all_files.
ExportStep == op' = "export_all_files"

\* C18: a run of export calls the Record Store's export, exactly once, if
\* and only if the Committed Registry is not empty, that is, an entry has
\* been appended to it during the session (it starts empty); it makes no
\* other call and leaves both registries as they were.  A Committed Registry
\* that is not empty is not empty after any step, so export, once possible,
\* stays possible after every later add, remove, category choice, commit or
\* export.
C18_ExportGate ==
    [][ /\ ExportStep =>
              /\ calls' = CallsTo(calls', "export")
              /\ Len(calls') = (IF loaded_files # <<>> THEN 1 ELSE 0)
              /\ loading_files' = loading_files
              /\ loaded_files' = loaded_files
              /\ Entries(loading_files', heap') = StagingRegistry
              /\ Entries(loaded_files', heap') = CommittedRegistry
        /\ loaded_files # <<>> => loaded_files' # <<>>
      ]_vars

\* Export has just called the Record Store, after a commit made it possible
\* and with an entry staged since that is not committed.
C18_Witness ==
    /\ op = "export_all_files"
    /\ Len(CallsTo(calls, "export")) = 1
    /\ loaded_files # <<>>
    /\ loading_files # <<>>
    /\ \A i \in DOMAIN loading_files :
           \A j \in DOMAIN loaded_files : loading_files[i] # loaded_files[j]

====
